---- MODULE Spec2Model ----
(***************************************************************************)
(* State-machine model of src/modules/wayland/waylandmodule.cpp (fcitx5):  *)
(* the WaylandModule connection registry, the WaylandConnection I/O pump,  *)
(* the created/closed callback tables and the KDE layout-sync handler.     *)
(*                                                                         *)
(* Every handler is one atomic action (the event loop is single-threaded). *)
(* `trace` holds the ordered events of the handler that ran last, so that  *)
(* orderings inside one handler are state predicates.  Subscriber          *)
(* callbacks are observers under Spec: they do not call back into the      *)
(* module.                                                                 *)
(***************************************************************************)
EXTENDS Integers, Sequences, FiniteSets, TLC

\* ------------------------------------------------------------------ bounds
MaxConn == 2    \* WaylandConnection objects constructed over one run
MaxSubs == 2    \* subscriptions per callback table

\* Display names; "" is the main (default) display.
Names == {"", "a"}

\* Readiness flags the event loop hands to the I/O callback.
IOEventFlag == {"In", "Err", "Hup"}
FlagSets == {{"In"}, {"In", "Err"}, {"In", "Hup"}, {"Err", "Hup"}}

\* Results of wl_display_prepare_read / wl_display_dispatch / wl_display_get_error.
PrepareResults == {0, -1}
DispatchResults == {0, -1}
ErrorCodes == {0, 71}

SessionTypes == {"wayland", "x11"}
DesktopTypes == {"KDE5", "GNOME"}

\* The `name` parameter of removeDisplay refers to a string owned by the caller.
NoConn == 0

VARIABLES
    constructed,        \* the WaylandModule constructor has run
    desktop,            \* host: getDesktopType(), cached by isKDE()
    isWaylandSession_,  \* WaylandModule::isWaylandSession_
    conns,              \* WaylandModule::conns_ : set of nodes [name, id]
    alive,              \* live WaylandConnection objects (each owns display_, ioEvent_, group_)
    error_,             \* WaylandConnection::error_ per live object
    nextId,             \* number of WaylandConnection objects constructed so far
    createdCallbacks,   \* WaylandModule::createdCallbacks_ (insertion order)
    closedCallbacks,    \* WaylandModule::closedCallbacks_ (insertion order)
    published,          \* objects onConnectionCreated has been called for
    exitRequested,      \* Instance::exit() has been called
    kxkbrc,             \* the persisted kxkbrc file
    xkbParameters,      \* Instance: xkb parameters per focus-group display
    trace               \* events of the handler that ran last

vars == <<constructed, desktop, isWaylandSession_, conns, alive, error_, nextId, createdCallbacks,
          closedCallbacks, published, exitRequested, kxkbrc,
          xkbParameters, trace>>

registryVars == <<conns, alive, error_, nextId, published>>
hostVars == <<desktop>>
layoutVars == <<kxkbrc, xkbParameters>>

\* ------------------------------------------------------------------ helpers
\* FocusGroup name given in the WaylandConnection constructor.
GroupName(name) == "wayland:" \o name

\* isKDE()
isKDE == desktop = "KDE5"

\* isSessionType("wayland"), for the host's session type string
isSessionType(sessionType, t) == sessionType = t

\* All iteration orders of an unordered container.
Orders(S) == {s \in [1..Cardinality(S) -> S] : \A x \in S : \E i \in DOMAIN s : s[i] = x}

\* Restriction of a function to a subset of its domain.
Restrict(f, S) == [x \in S |-> f[x]]

InRegistry(cs, id) == \E e \in cs : e.id = id

Call(op, name) == [ev |-> "call", op |-> op, name |-> name]
Return == [ev |-> "return"]

\* ------------------------------------------------------------------ WaylandConnection
\* The constructor: wl_display_connect, then the event registration and the
\* focus group.  A null display throws std::runtime_error.
WaylandConnectionCtorNoCheck(id, name, reachable) ==
    [thrown |-> FALSE,
     ev |-> <<[ev |-> "connect", name |-> name, ok |-> reachable],
              [ev |-> "construct", id |-> id, name |-> name, group |-> GroupName(name)]>>]

WaylandConnectionCtor(id, name, reachable) ==
    IF ~reachable
    THEN [thrown |-> TRUE,
          ev |-> <<[ev |-> "connect", name |-> name, ok |-> FALSE],
                   [ev |-> "throw", what |-> "std::runtime_error"]>>]
    ELSE [thrown |-> FALSE,
          ev |-> <<[ev |-> "connect", name |-> name, ok |-> TRUE],
                   [ev |-> "construct", id |-> id, name |-> name, group |-> GroupName(name)]>>]

\* ------------------------------------------------------------------ callback tables
\* onConnectionCreated: one call per entry of createdCallbacks_.view().
OnConnectionCreated(c, cs, al) ==
    [i \in 1..Len(createdCallbacks) |->
        [ev |-> "created", sub |-> createdCallbacks[i], name |-> c.name,
         display |-> c.id, group |-> GroupName(c.name),
         reg |-> InRegistry(cs, c.id), alive |-> c.id \in al]]

\* onConnectionClosed: one call per entry of closedCallbacks_.view().
OnConnectionClosed(c, cs, al) ==
    [i \in 1..Len(closedCallbacks) |->
        [ev |-> "closed", sub |-> closedCallbacks[i], name |-> c.name,
         display |-> c.id, reg |-> InRegistry(cs, c.id), alive |-> c.id \in al,
         pub |-> c.id \in published]]

\* ------------------------------------------------------------------ registry
\* conns_.emplace: the node is inserted only when no node has the key.
EmplaceNoCheck(cs, name, id) == cs \cup {[name |-> name, id |-> id]}

Emplace(cs, name, id) ==
    IF \E e \in cs : e.name = name THEN cs ELSE cs \cup {[name |-> name, id |-> id]}

\* openDisplay without the onConnectionCreated call.
OpenDisplayBodyNoPublish(name, reachable) ==
    LET id == nextId + 1
        ctor == WaylandConnectionCtor(id, name, reachable)
        inserted == ~\E e \in conns : e.name = name
        cs2 == Emplace(conns, name, id)
        al2 == IF inserted THEN alive \cup {id} ELSE alive
    IN IF ctor.thrown
       THEN /\ trace' = <<Call("openDisplay", name)>> \o ctor.ev
                        \o <<[ev |-> "catch"], Return>>
            /\ UNCHANGED registryVars
       ELSE /\ conns' = cs2
            /\ alive' = al2
            /\ error_' = IF inserted THEN [x \in al2 |-> IF x = id THEN 0 ELSE error_[x]]
                                     ELSE error_
            /\ nextId' = id
            /\ published' = published
            /\ trace' = <<Call("openDisplay", name)>> \o ctor.ev
                        \o <<[ev |-> "emplace", name |-> name, id |-> id,
                              inserted |-> inserted]>>
                        \o (IF inserted THEN <<>>
                            ELSE <<[ev |-> "destroy", id |-> id, name |-> name]>>)
                        \o <<Return>>

\* The body of openDisplay(name); `reachable` is the outcome of
\* wl_display_connect.  emplace builds the node (the WaylandConnection) before
\* it looks the key up, and destroys it again when the key is taken;
\* onConnectionCreated is then called with the node the iterator points at.
OpenDisplayBody(name, reachable) ==
    LET id == nextId + 1
        ctor == WaylandConnectionCtor(id, name, reachable)
        inserted == ~\E e \in conns : e.name = name
        cs2 == Emplace(conns, name, id)
        al2 == IF inserted THEN alive \cup {id} ELSE alive
        target == CHOOSE e \in cs2 : e.name = name
    IN IF ctor.thrown
       THEN /\ trace' = <<Call("openDisplay", name)>> \o ctor.ev
                        \o <<[ev |-> "catch"], Return>>
            /\ UNCHANGED registryVars
       ELSE /\ conns' = cs2
            /\ alive' = al2
            /\ error_' = IF inserted THEN [x \in al2 |-> IF x = id THEN 0 ELSE error_[x]]
                                     ELSE error_
            /\ nextId' = id
            /\ published' = published \cup {target.id}
            /\ trace' = <<Call("openDisplay", name)>> \o ctor.ev
                        \o <<[ev |-> "emplace", name |-> name, id |-> id,
                              inserted |-> inserted]>>
                        \o (IF inserted THEN <<>>
                            ELSE <<[ev |-> "destroy", id |-> id, name |-> name]>>)
                        \o <<[ev |-> "publishCreated", id |-> target.id]>>
                        \o OnConnectionCreated(target, cs2, al2)
                        \o <<Return>>

\* removeDisplay(name).  `alias` is the connection whose name_ the reference
\* `name` is bound to (finish() passes name_), NoConn for a caller-owned
\* string.  After erase has destroyed that connection, name.empty() reads a
\* destroyed string: `garbage` is what that read yields.
RemoveDisplayEraseFirst(name, alias, garbage, exitWhen) ==
    LET found == {e \in conns : e.name = name}
        present == found # {}
        c == CHOOSE e \in found : TRUE
        cs2 == conns \ found
        al2 == alive \ {e.id : e \in found}
        nameEmpty == IF present /\ alias = c.id THEN garbage ELSE name = ""
        doExit == nameEmpty /\ exitWhen /\ isWaylandSession_
    IN [conns |-> cs2, alive |-> al2, exit |-> doExit,
        ev |-> <<[ev |-> "call", op |-> "removeDisplay", name |-> name,
                 policy |-> exitWhen]>>
               \o (IF present
                   THEN <<[ev |-> "erase", name |-> c.name, id |-> c.id]>>
                        \o OnConnectionClosed(c, cs2, al2)
                   ELSE <<>>)
               \o (IF doExit THEN <<[ev |-> "exit"]>> ELSE <<>>)]

RemoveDisplayExitInside(name, alias, garbage, exitWhen) ==
    LET found == {e \in conns : e.name = name}
        present == found # {}
        c == CHOOSE e \in found : TRUE
        cs2 == conns \ found
        al2 == alive \ {e.id : e \in found}
        nameEmpty == IF present /\ alias = c.id THEN garbage ELSE name = ""
        doExit == present /\ nameEmpty /\ exitWhen /\ isWaylandSession_
    IN [conns |-> cs2, alive |-> al2, exit |-> doExit,
        ev |-> <<[ev |-> "call", op |-> "removeDisplay", name |-> name,
                 policy |-> exitWhen]>>
               \o (IF present
                   THEN OnConnectionClosed(c, conns, alive)
                        \o <<[ev |-> "erase", name |-> c.name, id |-> c.id]>>
                   ELSE <<>>)
               \o (IF doExit THEN <<[ev |-> "exit"]>> ELSE <<>>)]

RemoveDisplayKeep(name, alias, garbage, exitWhen) ==
    LET doExit == name = "" /\ exitWhen /\ isWaylandSession_
    IN [conns |-> conns, alive |-> alive, exit |-> doExit,
        ev |-> <<[ev |-> "call", op |-> "removeDisplay", name |-> name,
                 policy |-> exitWhen]>>
               \o (IF doExit THEN <<[ev |-> "exit"]>> ELSE <<>>)]

RemoveDisplay(name, alias, garbage, exitWhen) ==
    LET found == {e \in conns : e.name = name}
        present == found # {}
        c == CHOOSE e \in found : TRUE
        cs2 == conns \ found
        al2 == alive \ {e.id : e \in found}
        nameEmpty == IF present /\ alias = c.id THEN garbage ELSE name = ""
        doExit == nameEmpty /\ exitWhen /\ isWaylandSession_
    IN [conns |-> cs2, alive |-> al2, exit |-> doExit,
        ev |-> <<[ev |-> "call", op |-> "removeDisplay", name |-> name,
                 policy |-> exitWhen]>>
               \o (IF present
                   THEN OnConnectionClosed(c, conns, alive)
                        \o <<[ev |-> "erase", name |-> c.name, id |-> c.id]>>
                   ELSE <<>>)
               \o (IF doExit THEN <<[ev |-> "exit"]>> ELSE <<>>)]

\* ------------------------------------------------------------------ actions
Running == constructed /\ ~exitRequested

\* A constructor that gives up the process when the default display cannot
\* be opened.
ConstructFatal(sessionType, reachable) ==
    /\ ~constructed
    /\ constructed' = TRUE
    /\ isWaylandSession_' = isSessionType(sessionType, "wayland")
    /\ OpenDisplayBody("", reachable)
    /\ exitRequested' = ~reachable
    /\ UNCHANGED <<hostVars, createdCallbacks, closedCallbacks, layoutVars>>

\* WaylandModule::WaylandModule: records the session type and opens "".
Construct(sessionType, reachable) ==
    /\ ~constructed
    /\ constructed' = TRUE
    /\ isWaylandSession_' = isSessionType(sessionType, "wayland")
    /\ OpenDisplayBody("", reachable)
    /\ UNCHANGED <<hostVars, createdCallbacks, closedCallbacks,
                   exitRequested, layoutVars>>

openDisplay(name, reachable) ==
    /\ Running
    /\ nextId < MaxConn
    /\ OpenDisplayBody(name, reachable)
    /\ UNCHANGED <<constructed, hostVars, isWaylandSession_, createdCallbacks,
                   closedCallbacks, exitRequested, layoutVars>>

\* removeDisplay called by another module, with a string of its own;
\* `exitWhen` is what instance_->exitWhenMainDisplayDisconnected() returns.
removeDisplay(name, exitWhen) ==
    /\ Running
    /\ LET r == RemoveDisplay(name, NoConn, FALSE, exitWhen)
       IN /\ conns' = r.conns
          /\ alive' = r.alive
          /\ error_' = Restrict(error_, r.alive)
          /\ exitRequested' = r.exit
          /\ trace' = r.ev \o <<Return>>
    /\ UNCHANGED <<constructed, hostVars, isWaylandSession_, nextId, published,
                   createdCallbacks, closedCallbacks, layoutVars>>

\* A pump that closes the connection on every negative dispatch result.
ShouldFinishOnNegativeDispatch(hup, dispatch, err) == hup \/ dispatch < 0

\* Whether onIOEvent ends in finish(): on Err or Hup, or when dispatch is
\* negative and the error code read then is not 0.
ShouldFinish(hup, dispatch, err) == hup \/ (dispatch < 0 /\ err # 0)

\* A pump whose finish() is not followed by return.
PumpTailFallsThrough(fin, id, rev) ==
    IF fin THEN <<[ev |-> "finish", id |-> id]>> \o rev \o <<[ev |-> "flush", id |-> id]>>
           ELSE <<[ev |-> "flush", id |-> id]>>

\* The end of onIOEvent: `return finish()`, or the flush; `rev` is what the
\* removeDisplay call inside finish() does.
PumpTail(fin, id, rev) ==
    IF fin THEN <<[ev |-> "finish", id |-> id]>> \o rev
           ELSE <<[ev |-> "flush", id |-> id]>>

\* WaylandConnection::onIOEvent, called by the event loop for the ioEvent_ of
\* a live connection; finish() is parent_->removeDisplay(name_).  The results
\* of the transport calls are drawn where the code reads them.
onIOEvent(c, flags) ==
    /\ Running
    /\ c \in conns
    /\ c.id \in alive
    /\ LET hup == ("Err" \in flags) \/ ("Hup" \in flags)
       IN \E prepare \in (IF hup THEN {0} ELSE PrepareResults),
             dispatch \in (IF hup THEN {0} ELSE DispatchResults) :
          \E err \in (IF dispatch < 0 THEN ErrorCodes ELSE {0}) :
          LET neg == ~hup /\ dispatch < 0
              fin == ShouldFinish(hup, dispatch, err)
          IN \E garbage \in (IF fin THEN BOOLEAN ELSE {FALSE}),
                exitWhen \in (IF fin THEN BOOLEAN ELSE {FALSE}) :
             LET r == RemoveDisplay(c.name, c.id, garbage, exitWhen)
                 pumpEv ==
                     IF hup THEN <<>>
                     ELSE <<[ev |-> "prepare_read", id |-> c.id]>>
                          \o (IF prepare = 0
                              THEN <<[ev |-> "read_events", id |-> c.id]>> ELSE <<>>)
                          \o <<[ev |-> "dispatch", id |-> c.id, res |-> dispatch]>>
                          \o (IF neg THEN <<[ev |-> "get_error", id |-> c.id,
                                              code |-> err]>>
                                     ELSE <<>>)
             IN /\ trace' = <<[ev |-> "call", op |-> "onIOEvent", name |-> c.name,
                               id |-> c.id, hup |-> hup]>>
                            \o pumpEv
                            \o PumpTail(fin, c.id, r.ev)
                            \o <<Return>>
                /\ conns' = IF fin THEN r.conns ELSE conns
                /\ alive' = IF fin THEN r.alive ELSE alive
                /\ error_' = IF fin THEN Restrict(error_, r.alive)
                             ELSE IF neg THEN [error_ EXCEPT ![c.id] = err]
                             ELSE error_
                /\ exitRequested' = (fin /\ r.exit)
    /\ UNCHANGED <<constructed, hostVars, isWaylandSession_, nextId, published,
                   createdCallbacks, closedCallbacks, layoutVars>>

\* addConnectionCreatedCallback: add, then replay over conns_.
ReplayFirstOnly(sub, order) ==
    [i \in 1..(IF Len(order) > 0 THEN 1 ELSE 0) |->
        [ev |-> "created", sub |-> sub, name |-> order[i].name,
         display |-> order[i].id, group |-> GroupName(order[i].name),
         reg |-> TRUE, alive |-> order[i].id \in alive]]

Replay(sub, order) ==
    [i \in 1..Len(order) |->
        [ev |-> "created", sub |-> sub, name |-> order[i].name,
         display |-> order[i].id, group |-> GroupName(order[i].name),
         reg |-> TRUE, alive |-> order[i].id \in alive]]

addConnectionCreatedCallback(order) ==
    /\ Running
    /\ Len(createdCallbacks) < MaxSubs
    /\ LET sub == Len(createdCallbacks) + 1
       IN /\ createdCallbacks' = Append(createdCallbacks, sub)
          /\ trace' = <<[ev |-> "call", op |-> "addConnectionCreatedCallback",
                         sub |-> sub]>>
                      \o Replay(sub, order) \o <<Return>>
    /\ UNCHANGED <<constructed, hostVars, isWaylandSession_, registryVars,
                   closedCallbacks, exitRequested, layoutVars>>

\* A subscription that is told of the connections already in the registry.
addConnectionClosedCallbackReplays ==
    /\ Running
    /\ Len(closedCallbacks) < MaxSubs
    /\ LET sub == Len(closedCallbacks) + 1
       IN /\ closedCallbacks' = Append(closedCallbacks, sub)
          /\ \E order \in Orders(conns) :
                trace' = <<[ev |-> "call", op |-> "addConnectionClosedCallback",
                            sub |-> sub]>>
                         \o [i \in 1..Len(order) |->
                               [ev |-> "closed", sub |-> sub, name |-> order[i].name,
                                display |-> order[i].id, reg |-> TRUE,
                                alive |-> order[i].id \in alive,
                                pub |-> order[i].id \in published]]
                         \o <<Return>>
    /\ UNCHANGED <<constructed, hostVars, isWaylandSession_, registryVars,
                   createdCallbacks, exitRequested, layoutVars>>

\* addConnectionClosedCallback: add only.
addConnectionClosedCallback ==
    /\ Running
    /\ Len(closedCallbacks) < MaxSubs
    /\ LET sub == Len(closedCallbacks) + 1
       IN /\ closedCallbacks' = Append(closedCallbacks, sub)
          /\ trace' = <<[ev |-> "call", op |-> "addConnectionClosedCallback",
                         sub |-> sub], Return>>
    /\ UNCHANGED <<constructed, hostVars, isWaylandSession_, registryVars,
                   createdCallbacks, exitRequested, layoutVars>>

\* ------------------------------------------------------------------ layout sync
\* Strings the handler parses or stores are sequences of characters.
S_us == <<"u", "s">>
S_us_dvorak == <<"u", "s", "~", "d", "v">>
S_de == <<"d", "e">>
S_true == <<"t", "r", "u", "e">>
S_false == <<"n", "o">>
S_pc104 == <<"p", "c">>
S_caps == <<"c", "a", "p", "s">>
S_empty == <<>>

\* defaultLayout() of the current input-method group.
Layouts == {S_us, S_us_dvorak}

\* DEFAULT_XKB_RULES
DEFAULT_XKB_RULES == "evdev"

\* A RawConfig is a function from path keys to values.
EmptyConfig == [k \in {} |-> S_empty]

\* kxkbrc files the user may have when the module starts.
InitialFiles ==
    { [exists |-> FALSE, data |-> EmptyConfig],
      [exists |-> TRUE,
       data |-> [k \in {"Layout/LayoutList", "Layout/DisplayNames", "Layout/Use",
                        "Layout/Model", "Layout/Options", "General/Other"} |->
                    CASE k = "Layout/LayoutList" -> S_de
                      [] k = "Layout/DisplayNames" -> S_de
                      [] k = "Layout/Use" -> S_false
                      [] k = "Layout/Model" -> S_pc104
                      [] k = "Layout/Options" -> S_caps
                      [] OTHER -> S_true]] }

\* parseLayout: "layout~variant", or "layout" alone with an empty variant.
parseLayout(s) ==
    LET seps == {i \in DOMAIN s : s[i] = "~"}
    IN IF seps = {} THEN <<s, S_empty>>
       ELSE LET pos == CHOOSE i \in seps : \A j \in seps : i <= j
            IN <<SubSeq(s, 1, pos - 1), SubSeq(s, pos + 1, Len(s))>>

\* readAsIni: the stored configuration, empty when there is no file.
readAsIni(file) == IF file.exists THEN file.data ELSE EmptyConfig

\* safeSaveAsIni: the file holds the configuration afterwards.
safeSaveAsIni(config) == [exists |-> TRUE, data |-> config]

\* RawConfig::setValueByPath
setValueByPath(config, key, value) ==
    [k \in DOMAIN config \cup {key} |-> IF k = key THEN value ELSE config[k]]

\* RawConfig::valueByPath, with the handler's `x ? *x : ""`
valueOrEmpty(config, key) == IF key \in DOMAIN config THEN config[key] ELSE S_empty

\* Instance::setXkbParameters(display, rules, model, options)
setXkbParameters(params, display, rules, model, options) ==
    [d \in DOMAIN params \cup {display} |->
        IF d = display THEN [rules |-> rules, model |-> model, options |-> options]
        ELSE params[d]]

\* The first guards of the handler: isKDE(), isWaylandSession_ and
\* findValue(conns_, "").
EarlyGuards == isKDE /\ isWaylandSession_ /\ (\E e \in conns : e.name = "")

HandlerCall == [ev |-> "call", op |-> "InputMethodGroupChanged"]

\* The InputMethodGroupChanged handler (registered in builds with
\* ENABLE_DBUS, which is the build modelled).  `dbusAddon` is whether dbus() yields
\* an addon and `defaultLayout` the current group's default layout; the
\* handler reads them only after the guards before them have passed.
LayoutSyncNoDBusGuard(defaultLayout, dbusAddon) ==
    IF ~EarlyGuards
    THEN [kxkbrc |-> kxkbrc, xkb |-> xkbParameters, ev |-> <<HandlerCall, Return>>]
    ELSE LET loaded == readAsIni(kxkbrc)
             config == setValueByPath(loaded, "Layout/Use", S_true)
         IN [kxkbrc |-> safeSaveAsIni(config), xkb |-> xkbParameters,
             ev |-> <<HandlerCall,
                      [ev |-> "dbus", found |-> dbusAddon],
                      [ev |-> "readAsIni", file |-> "kxkbrc"],
                      [ev |-> "safeSaveAsIni", file |-> "kxkbrc"],
                      [ev |-> "signal", path |-> "/Layouts",
                       interface |-> "org.kde.keyboard", member |-> "reloadConfig"],
                      Return>>]

LayoutSyncRewritesModel(defaultLayout, dbusAddon) ==
    IF ~EarlyGuards
    THEN [kxkbrc |-> kxkbrc, xkb |-> xkbParameters, ev |-> <<HandlerCall, Return>>]
    ELSE IF ~dbusAddon
    THEN [kxkbrc |-> kxkbrc, xkb |-> xkbParameters,
          ev |-> <<HandlerCall, [ev |-> "dbus", found |-> FALSE], Return>>]
    ELSE LET lv == parseLayout(defaultLayout)
             loaded == readAsIni(kxkbrc)
             c1 == setValueByPath(loaded, "Layout/LayoutList", lv[1])
             c2 == setValueByPath(c1, "Layout/VariantList", lv[2])
             c3 == setValueByPath(c2, "Layout/DisplayNames", S_empty)
             c4 == setValueByPath(c3, "Layout/Use", S_true)
             config == setValueByPath(c4, "Layout/Model", S_empty)
         IN [kxkbrc |-> safeSaveAsIni(config), xkb |-> xkbParameters,
             ev |-> <<HandlerCall,
                      [ev |-> "dbus", found |-> TRUE],
                      [ev |-> "parseLayout", input |-> defaultLayout, layout |-> lv[1],
                       variant |-> lv[2]],
                      [ev |-> "readAsIni", file |-> "kxkbrc"],
                      [ev |-> "safeSaveAsIni", file |-> "kxkbrc"],
                      Return>>]

LayoutSyncSignalFirst(defaultLayout, dbusAddon) ==
    IF ~EarlyGuards
    THEN [kxkbrc |-> kxkbrc, xkb |-> xkbParameters, ev |-> <<HandlerCall, Return>>]
    ELSE IF ~dbusAddon
    THEN [kxkbrc |-> kxkbrc, xkb |-> xkbParameters,
          ev |-> <<HandlerCall, [ev |-> "dbus", found |-> FALSE], Return>>]
    ELSE LET c == CHOOSE e \in conns : e.name = ""
             lv == parseLayout(defaultLayout)
             loaded == readAsIni(kxkbrc)
             c1 == setValueByPath(loaded, "Layout/LayoutList", lv[1])
             c2 == setValueByPath(c1, "Layout/VariantList", lv[2])
             c3 == setValueByPath(c2, "Layout/DisplayNames", S_empty)
             config == setValueByPath(c3, "Layout/Use", S_true)
             model == valueOrEmpty(config, "Layout/Model")
             options == valueOrEmpty(config, "Layout/Options")
             display == GroupName(c.name)
         IN [kxkbrc |-> safeSaveAsIni(config),
             xkb |-> setXkbParameters(xkbParameters, display, DEFAULT_XKB_RULES,
                                      model, options),
             ev |-> <<HandlerCall,
                      [ev |-> "dbus", found |-> TRUE],
                      [ev |-> "parseLayout", input |-> defaultLayout, layout |-> lv[1],
                       variant |-> lv[2]],
                      [ev |-> "readAsIni", file |-> "kxkbrc"],
                      [ev |-> "signal", path |-> "/Layouts",
                       interface |-> "org.kde.keyboard", member |-> "reloadConfig"],
                      [ev |-> "setXkbParameters", display |-> display,
                       rules |-> DEFAULT_XKB_RULES, model |-> model,
                       options |-> options],
                      [ev |-> "safeSaveAsIni", file |-> "kxkbrc"],
                      Return>>]

\* A handler that lets a failed save escape as an exception.
LayoutSyncIOThrowsOnSaveFailure(defaultLayout, dbusAddon, readOk, saveOk, sendOk) ==
    IF ~EarlyGuards
    THEN [kxkbrc |-> kxkbrc, xkb |-> xkbParameters, ev |-> <<HandlerCall, Return>>]
    ELSE IF ~dbusAddon
    THEN [kxkbrc |-> kxkbrc, xkb |-> xkbParameters,
          ev |-> <<HandlerCall, [ev |-> "dbus", found |-> FALSE], Return>>]
    ELSE LET c == CHOOSE e \in conns : e.name = ""
             lv == parseLayout(defaultLayout)
             loaded == IF readOk THEN readAsIni(kxkbrc) ELSE EmptyConfig
             c1 == setValueByPath(loaded, "Layout/LayoutList", lv[1])
             c2 == setValueByPath(c1, "Layout/VariantList", lv[2])
             c3 == setValueByPath(c2, "Layout/DisplayNames", S_empty)
             config == setValueByPath(c3, "Layout/Use", S_true)
             model == valueOrEmpty(config, "Layout/Model")
             options == valueOrEmpty(config, "Layout/Options")
             display == GroupName(c.name)
         IN [kxkbrc |-> IF saveOk THEN safeSaveAsIni(config) ELSE kxkbrc,
             xkb |-> setXkbParameters(xkbParameters, display, DEFAULT_XKB_RULES,
                                      model, options),
             ev |-> <<HandlerCall,
                      [ev |-> "dbus", found |-> TRUE],
                      [ev |-> "parseLayout", input |-> defaultLayout, layout |-> lv[1],
                       variant |-> lv[2]],
                      [ev |-> IF readOk THEN "readAsIni" ELSE "readAsIniFailed",
                       file |-> "kxkbrc"],
                      [ev |-> "setXkbParameters", display |-> display,
                       rules |-> DEFAULT_XKB_RULES, model |-> model,
                       options |-> options]>>
                    \o (IF saveOk
                        THEN <<[ev |-> "safeSaveAsIni", file |-> "kxkbrc"],
                               IF sendOk
                               THEN [ev |-> "signal", path |-> "/Layouts",
                                     interface |-> "org.kde.keyboard",
                                     member |-> "reloadConfig"]
                               ELSE [ev |-> "sendFailed", path |-> "/Layouts",
                                     interface |-> "org.kde.keyboard",
                                     member |-> "reloadConfig"],
                               Return>>
                        ELSE <<[ev |-> "safeSaveAsIniFailed", file |-> "kxkbrc"],
                               [ev |-> "raise"]>>)]

\* The handler with the outcomes of its I/O: `readOk` is whether kxkbrc could
\* be read (otherwise the configuration stays empty), `saveOk` whether
\* safeSaveAsIni wrote the file (its result is ignored), `sendOk` whether
\* message.send() delivered the signal (its result is ignored).
LayoutSyncIO(defaultLayout, dbusAddon, readOk, saveOk, sendOk) ==
    IF ~EarlyGuards
    THEN [kxkbrc |-> kxkbrc, xkb |-> xkbParameters, ev |-> <<HandlerCall, Return>>]
    ELSE IF ~dbusAddon
    THEN [kxkbrc |-> kxkbrc, xkb |-> xkbParameters,
          ev |-> <<HandlerCall, [ev |-> "dbus", found |-> FALSE], Return>>]
    ELSE LET c == CHOOSE e \in conns : e.name = ""
             lv == parseLayout(defaultLayout)
             loaded == IF readOk THEN readAsIni(kxkbrc) ELSE EmptyConfig
             c1 == setValueByPath(loaded, "Layout/LayoutList", lv[1])
             c2 == setValueByPath(c1, "Layout/VariantList", lv[2])
             c3 == setValueByPath(c2, "Layout/DisplayNames", S_empty)
             config == setValueByPath(c3, "Layout/Use", S_true)
             model == valueOrEmpty(config, "Layout/Model")
             options == valueOrEmpty(config, "Layout/Options")
             display == GroupName(c.name)
         IN [kxkbrc |-> IF saveOk THEN safeSaveAsIni(config) ELSE kxkbrc,
             xkb |-> setXkbParameters(xkbParameters, display, DEFAULT_XKB_RULES,
                                      model, options),
             ev |-> <<HandlerCall,
                      [ev |-> "dbus", found |-> TRUE],
                      [ev |-> "parseLayout", input |-> defaultLayout, layout |-> lv[1],
                       variant |-> lv[2]],
                      [ev |-> IF readOk THEN "readAsIni" ELSE "readAsIniFailed",
                       file |-> "kxkbrc"],
                      [ev |-> "setXkbParameters", display |-> display,
                       rules |-> DEFAULT_XKB_RULES, model |-> model,
                       options |-> options],
                      [ev |-> IF saveOk THEN "safeSaveAsIni" ELSE "safeSaveAsIniFailed",
                       file |-> "kxkbrc"],
                      IF sendOk
                      THEN [ev |-> "signal", path |-> "/Layouts",
                            interface |-> "org.kde.keyboard", member |-> "reloadConfig"]
                      ELSE [ev |-> "sendFailed", path |-> "/Layouts",
                            interface |-> "org.kde.keyboard", member |-> "reloadConfig"],
                      Return>>]

\* The handler when the configuration is read and written and the signal is
\* sent without failure.
LayoutSync(defaultLayout, dbusAddon) ==
    LayoutSyncIO(defaultLayout, dbusAddon, TRUE, TRUE, TRUE)

\* The event dispatcher runs the handler for an InputMethodGroupChanged event.
InputMethodGroupChanged ==
    /\ Running
    /\ \E dbusAddon \in (IF EarlyGuards THEN BOOLEAN ELSE {FALSE}) :
       \E defaultLayout \in (IF dbusAddon THEN Layouts ELSE {S_empty}) :
          LET r == LayoutSync(defaultLayout, dbusAddon)
          IN /\ kxkbrc' = r.kxkbrc
             /\ xkbParameters' = r.xkb
             /\ trace' = r.ev
    /\ UNCHANGED <<constructed, hostVars, isWaylandSession_, registryVars,
                   createdCallbacks, closedCallbacks, exitRequested>>

\* The handler runs past its guards and some I/O of it fails, or the layout
\* string has no layout part.
S_odd == <<"~">>

InputMethodGroupChangedFaulty ==
    /\ Running
    /\ EarlyGuards
    /\ \E defaultLayout \in Layouts \cup {S_odd},
          readOk \in BOOLEAN, saveOk \in BOOLEAN, sendOk \in BOOLEAN :
          /\ ~(readOk /\ saveOk /\ sendOk) \/ defaultLayout = S_odd
          /\ LET r == LayoutSyncIO(defaultLayout, TRUE, readOk, saveOk, sendOk)
             IN /\ kxkbrc' = r.kxkbrc
                /\ xkbParameters' = r.xkb
                /\ trace' = r.ev
    /\ UNCHANGED <<constructed, hostVars, isWaylandSession_, registryVars,
                   createdCallbacks, closedCallbacks, exitRequested>>

\* What conns_.erase(iter) does when the iterator's node was already erased by
\* a nested call: nothing visible, a second destruction of the node, or the
\* end of the process.
StaleErase == {"none", "erase", "abort"}

\* removeDisplay(name) for an open name, where the k-th closed callback calls
\* removeDisplay(name2) from inside the notification pass.  The nested call
\* runs in full; the outer pass then goes on with the remaining callbacks and
\* the outer call erases through the iterator it found at its start.
removeDisplayReentrant(name, k, name2, exitWhen) ==
    /\ Running
    /\ \E e \in conns : e.name = name
    /\ k \in 1..Len(closedCallbacks)
    /\ LET c == CHOOSE e \in conns : e.name = name
           nested == RemoveDisplay(name2, NoConn, FALSE, exitWhen)
           gone == c \notin nested.conns
           n == Len(closedCallbacks)
           doExit == name = "" /\ exitWhen /\ isWaylandSession_
       IN \E stale \in (IF gone THEN StaleErase ELSE {"none"}) :
            LET aborted == gone /\ stale = "abort"
                al2 == nested.alive \ {c.id}
            IN /\ conns' = nested.conns \ {c}
               /\ alive' = al2
               /\ error_' = Restrict(error_, al2)
               /\ exitRequested' = (nested.exit \/ aborted \/ doExit)
               /\ trace' = <<[ev |-> "call", op |-> "removeDisplay", name |-> name,
                              policy |-> exitWhen]>>
                            \o SubSeq(OnConnectionClosed(c, conns, alive), 1, k)
                            \o nested.ev \o <<Return>>
                            \o SubSeq(OnConnectionClosed(c, nested.conns, nested.alive),
                                      k + 1, n)
                            \o (IF ~gone \/ stale = "erase"
                                THEN <<[ev |-> "erase", name |-> c.name, id |-> c.id]>>
                                ELSE <<>>)
                            \o (IF aborted THEN <<[ev |-> "abort"]>>
                                ELSE (IF doExit THEN <<[ev |-> "exit"]>> ELSE <<>>)
                                     \o <<Return>>)
    /\ UNCHANGED <<constructed, hostVars, isWaylandSession_, nextId, published,
                   createdCallbacks, closedCallbacks, layoutVars>>

\* ------------------------------------------------------------------ specification
Init ==
    /\ constructed = FALSE
    /\ desktop \in DesktopTypes
    /\ isWaylandSession_ = FALSE
    /\ conns = {}
    /\ alive = {}
    /\ error_ = [x \in {} |-> 0]
    /\ nextId = 0
    /\ createdCallbacks = <<>>
    /\ closedCallbacks = <<>>
    /\ published = {}
    /\ exitRequested = FALSE
    /\ kxkbrc \in InitialFiles
    /\ xkbParameters = [d \in {} |-> 0]
    /\ trace = <<>>

Next ==
    \/ \E sessionType \in SessionTypes, reachable \in BOOLEAN :
          Construct(sessionType, reachable)
    \/ \E name \in Names, reachable \in BOOLEAN : openDisplay(name, reachable)
    \/ \E name \in Names, exitWhen \in BOOLEAN : removeDisplay(name, exitWhen)
    \/ \E c \in conns, flags \in FlagSets : onIOEvent(c, flags)
    \/ \E order \in Orders(conns) : addConnectionCreatedCallback(order)
    \/ addConnectionClosedCallback
    \/ InputMethodGroupChanged

Spec == Init /\ [][Next]_vars

\* The module without subscribers, when the handler's I/O may fail.
NextFaults ==
    \/ \E sessionType \in SessionTypes, reachable \in BOOLEAN :
          Construct(sessionType, reachable)
    \/ \E name \in Names, reachable \in BOOLEAN : openDisplay(name, reachable)
    \/ \E name \in Names, exitWhen \in BOOLEAN : removeDisplay(name, exitWhen)
    \/ \E c \in conns, flags \in FlagSets : onIOEvent(c, flags)
    \/ InputMethodGroupChanged
    \/ InputMethodGroupChangedFaulty

SpecFaults == Init /\ [][NextFaults]_vars

\* The module when closed callbacks may call removeDisplay themselves.
NextReentrant ==
    \/ \E sessionType \in SessionTypes, reachable \in BOOLEAN :
          Construct(sessionType, reachable)
    \/ \E name \in Names, reachable \in BOOLEAN : openDisplay(name, reachable)
    \/ \E name \in Names, exitWhen \in BOOLEAN : removeDisplay(name, exitWhen)
    \/ addConnectionClosedCallback
    \/ \E name \in Names, k \in 1..MaxSubs, name2 \in Names, exitWhen \in BOOLEAN :
          removeDisplayReentrant(name, k, name2, exitWhen)

SpecReentrant == Init /\ [][NextReentrant]_vars

\* ------------------------------------------------------------------ properties
Range(f) == {f[i] : i \in DOMAIN f}

HasEvent(t, kind) == \E i \in DOMAIN t : t[i].ev = kind

IsCall(t, op) == Len(t) > 0 /\ t[1].ev = "call" /\ t[1].op = op

\* C1: in every reachable state the registry holds at most one Connection
\* per name, whatever openDisplay and removeDisplay calls were made.
C1_OneConnectionPerName ==
    \A e1, e2 \in conns : e1.name = e2.name => e1 = e2

\* openDisplay has just been called, with a reachable display, for a name
\* that was already open.
C1_Witness ==
    /\ IsCall(trace, "openDisplay")
    /\ \E i \in DOMAIN trace : trace[i].ev = "emplace" /\ ~trace[i].inserted
    /\ \E e \in conns : e.name = trace[1].name

OpenFailed(t) ==
    /\ IsCall(t, "openDisplay")
    /\ \E i \in DOMAIN t : t[i].ev = "connect" /\ ~t[i].ok

ReturnsNormally(t) ==
    /\ t[Len(t)] = Return
    /\ \A i \in DOMAIN t : t[i].ev = "throw" =>
          \E j \in DOMAIN t : j > i /\ t[j].ev = "catch"

\* C2: an openDisplay whose transport is unreachable returns normally,
\* leaves the registry entries exactly as they were and delivers no
\* "created" notification.
C2_FailedOpenIsSilent ==
    [][OpenFailed(trace') =>
          /\ ReturnsNormally(trace')
          /\ conns' = conns
          /\ alive' = alive
          /\ ~HasEvent(trace', "created")
          /\ ~HasEvent(trace', "publishCreated")]_vars

\* A failed openDisplay in a state with an open connection and a
\* created-subscriber.
C2_Witness ==
    /\ OpenFailed(trace)
    /\ conns # {}
    /\ Len(createdCallbacks) > 0

ClosedFor(t, s, id) ==
    {i \in DOMAIN t : t[i].ev = "closed" /\ t[i].sub = s /\ t[i].display = id}

C3_HupPumpOutcome ==
    (IsCall(trace, "onIOEvent") /\ trace[1].hup) =>
        /\ \A s \in Range(closedCallbacks) :
              Cardinality(ClosedFor(trace, s, trace[1].id)) = 1
        /\ \A i \in DOMAIN trace : trace[i].ev = "closed" =>
              /\ trace[i].name = trace[1].name
              /\ trace[i].display = trace[1].id
              /\ trace[i].sub \in Range(closedCallbacks)
        /\ ~InRegistry(conns, trace[1].id)
        /\ ~\E e \in conns : e.name = trace[1].name
        /\ trace[1].id \notin alive
        /\ trace[Len(trace)] = Return

\* C3: a pump invocation whose flags contain Err or Hup delivers exactly one
\* "closed" notification per closed-subscriber, carrying the connection's
\* name, and leaves the connection out of the registry; no pump runs for it
\* afterwards: the pump only runs for a live connection, the connection is
\* not live when the invocation returns, and a destroyed connection never
\* becomes live again.
C3_HupPumpClosesOnce ==
    /\ []C3_HupPumpOutcome
    /\ [][/\ IsCall(trace', "onIOEvent") => trace'[1].id \in alive
          /\ \A id \in 1..nextId : id \notin alive => id \notin alive']_vars

\* A pump saw Err or Hup with two closed-subscribers while another
\* connection stays open.
C3_Witness ==
    /\ IsCall(trace, "onIOEvent")
    /\ trace[1].hup
    /\ Len(closedCallbacks) = 2
    /\ conns # {}

\* C4: addConnectionCreatedCallback(cb) invokes cb before it returns, exactly
\* once for each connection in the registry (not at all when it is empty),
\* each time with that connection's name, display handle and focus group.
C4_ReplayOnSubscribe ==
    IsCall(trace, "addConnectionCreatedCallback") =>
        LET created == {i \in DOMAIN trace : trace[i].ev = "created"}
        IN /\ \A e \in conns :
                 Cardinality({i \in created :
                                 /\ trace[i].sub = trace[1].sub
                                 /\ trace[i].name = e.name
                                 /\ trace[i].display = e.id
                                 /\ trace[i].group = "wayland:" \o e.name
                                 /\ trace[i].alive}) = 1
           /\ Cardinality(created) = Cardinality(conns)
           /\ \A i \in created : trace[i].sub = trace[1].sub /\ i < Len(trace)
           /\ trace[Len(trace)] = Return

\* A subscriber was added while two connections were open.
C4_Witness ==
    /\ IsCall(trace, "addConnectionCreatedCallback")
    /\ Cardinality(conns) = 2

\* C5 as stated: removeDisplay(name) for a name with no entry changes
\* nothing, delivers no "closed" notification and requests no process exit,
\* for every name and every policy setting.
C5_AbsentRemoveIsNoOp ==
    [][(IsCall(trace', "removeDisplay") /\ ~\E e \in conns : e.name = trace'[1].name) =>
          /\ conns' = conns
          /\ alive' = alive
          /\ ~HasEvent(trace', "closed")
          /\ ~HasEvent(trace', "exit")
          /\ ~exitRequested']_vars

\* C5 amended: removeDisplay(name) for a name with no entry leaves the
\* registry unchanged and delivers no "closed" notification; it requests
\* process exit exactly when the name is empty, the host's
\* exit-when-main-display-disconnected flag is true and the session is the
\* wayland session.
C5_AbsentRemoveKeepsRegistry ==
    [][(IsCall(trace', "removeDisplay") /\ ~\E e \in conns : e.name = trace'[1].name) =>
          /\ conns' = conns
          /\ alive' = alive
          /\ ~HasEvent(trace', "closed")
          /\ ~HasEvent(trace', "erase")
          /\ HasEvent(trace', "exit") <=> (trace'[1].name = "" /\ trace'[1].policy /\ isWaylandSession_)
          /\ exitRequested' <=> HasEvent(trace', "exit")]_vars

\* removeDisplay("") ran with no default connection, with a closed-subscriber
\* registered, and requested exit.
C5_Witness ==
    /\ IsCall(trace, "removeDisplay")
    /\ trace[1].name = ""
    /\ ~HasEvent(trace, "erase")
    /\ HasEvent(trace, "exit")
    /\ Len(closedCallbacks) > 0

\* C6: removing the default (empty-name) connection requests process exit
\* if and only if the host's exit flag is true and the session is the
\* wayland session; removing a connection with a non-empty name never
\* requests exit.
C6_ExitIffMainDisplayPolicy ==
    \A i \in DOMAIN trace : trace[i].ev = "erase" =>
        LET call == CHOOSE j \in DOMAIN trace :
                        trace[j].ev = "call" /\ trace[j].op = "removeDisplay"
        IN HasEvent(trace, "exit") <=>
              (trace[i].name = "" /\ trace[call].policy /\ isWaylandSession_)

\* C7: every "closed" notification about a connection comes after the
\* "created" publication for that connection, made by the openDisplay that
\* inserted it; none is delivered for a connection that was never opened.
C7_CreatedBeforeClosed ==
    \A i \in DOMAIN trace : trace[i].ev = "closed" =>
        /\ trace[i].pub
        /\ trace[i].display \in published
        /\ trace[i].display \in 1..nextId

\* A "closed" notification has been delivered.
C7_Witness ==
    /\ HasEvent(trace, "closed")
    /\ HasEvent(trace, "erase")

\* C8: removeDisplay erases the entry only after "closed" has been delivered
\* to every closed-subscriber; during each closed callback the connection is
\* still in the registry and its display handle is alive.
C8_EraseAfterClosed ==
    /\ \A i \in DOMAIN trace : trace[i].ev = "erase" =>
          /\ \A s \in Range(closedCallbacks) :
                \E j \in ClosedFor(trace, s, trace[i].id) : j < i
          /\ ~InRegistry(conns, trace[i].id)
          /\ trace[i].id \notin alive
    /\ \A j \in DOMAIN trace : trace[j].ev = "closed" =>
          /\ trace[j].reg
          /\ trace[j].alive
          /\ \E i \in DOMAIN trace :
                i > j /\ trace[i].ev = "erase" /\ trace[i].id = trace[j].display

\* removeDisplay removed a present connection with two closed-subscribers.
C8_Witness ==
    /\ IsCall(trace, "removeDisplay")
    /\ HasEvent(trace, "erase")
    /\ Len(closedCallbacks) = 2

DBusMissing(t) == \E i \in DOMAIN t : t[i].ev = "dbus" /\ ~t[i].found

DBusFound(t) == \E i \in DOMAIN t : t[i].ev = "dbus" /\ t[i].found

LayoutSideEffect(t) ==
    \E i \in DOMAIN t :
        t[i].ev \in {"readAsIni", "safeSaveAsIni", "setXkbParameters", "signal"}

\* C9: when the handler runs and a guard does not hold (desktop not KDE,
\* session not wayland, no connection named "", or no D-Bus addon), it reads
\* and writes no configuration, updates no keyboard parameters and sends no
\* bus signal.
C9_GuardFailureHasNoEffect ==
    [][(/\ IsCall(trace', "InputMethodGroupChanged")
        /\ \/ ~isKDE
           \/ ~isWaylandSession_
           \/ ~\E e \in conns : e.name = ""
           \/ DBusMissing(trace')) =>
          /\ ~LayoutSideEffect(trace')
          /\ kxkbrc' = kxkbrc
          /\ xkbParameters' = xkbParameters]_vars

\* The handler ran under KDE in a wayland session with a default connection
\* and an existing kxkbrc, and only the D-Bus addon was missing.
C9_Witness ==
    /\ IsCall(trace, "InputMethodGroupChanged")
    /\ isKDE /\ isWaylandSession_
    /\ \E e \in conns : e.name = ""
    /\ DBusMissing(trace)
    /\ kxkbrc.exists

OverwrittenKeys ==
    {"Layout/LayoutList", "Layout/VariantList", "Layout/DisplayNames", "Layout/Use"}

\* C10: when all guards pass, the persisted kxkbrc afterwards is the
\* configuration loaded before (empty when there was none) with exactly
\* Layout/LayoutList = parsed layout, Layout/VariantList = parsed variant,
\* Layout/DisplayNames = empty and Layout/Use = "true" overwritten; every
\* other key, Layout/Model and Layout/Options among them, is as before.
C10_FourKeysOverwritten ==
    [][(/\ IsCall(trace', "InputMethodGroupChanged")
        /\ isKDE /\ isWaylandSession_
        /\ \E e \in conns : e.name = ""
        /\ DBusFound(trace')) =>
          LET old == IF kxkbrc.exists THEN kxkbrc.data ELSE [k \in {} |-> <<>>]
              new == kxkbrc'.data
              p == CHOOSE i \in DOMAIN trace' : trace'[i].ev = "parseLayout"
              parsed == parseLayout(trace'[p].input)
          IN /\ kxkbrc'.exists
             /\ HasEvent(trace', "safeSaveAsIni")
             /\ DOMAIN new = DOMAIN old \cup OverwrittenKeys
             /\ new["Layout/LayoutList"] = parsed[1]
             /\ new["Layout/VariantList"] = parsed[2]
             /\ new["Layout/DisplayNames"] = <<>>
             /\ new["Layout/Use"] = <<"t", "r", "u", "e">>
             /\ \A k \in DOMAIN old \ OverwrittenKeys : new[k] = old[k]]_vars

\* The handler has rewritten an existing kxkbrc for layout "us", variant "dv":
\* the model and options of the file are still there.
C10_Witness ==
    /\ IsCall(trace, "InputMethodGroupChanged")
    /\ HasEvent(trace, "safeSaveAsIni")
    /\ kxkbrc.exists
    /\ "Layout/Model" \in DOMAIN kxkbrc.data
    /\ kxkbrc.data["Layout/Model"] = <<"p", "c">>
    /\ kxkbrc.data["Layout/LayoutList"] = <<"u", "s">>
    /\ kxkbrc.data["Layout/VariantList"] = <<"d", "v">>

Indices(t, kind) == {i \in DOMAIN t : t[i].ev = kind}

\* C11: when all guards pass, one handler run applies (model, options) to the
\* default connection's focus group, then persists the configuration, then
\* sends exactly one reloadConfig signal (path /Layouts, interface
\* org.kde.keyboard, no payload); the signal never precedes the save.
C11_ApplyThenSaveThenSignal ==
    (/\ IsCall(trace, "InputMethodGroupChanged")
     /\ isKDE /\ isWaylandSession_
     /\ \E e \in conns : e.name = ""
     /\ DBusFound(trace)) =>
        LET X == Indices(trace, "setXkbParameters")
            S == Indices(trace, "safeSaveAsIni")
            G == Indices(trace, "signal")
        IN /\ Cardinality(X) = 1 /\ Cardinality(S) = 1 /\ Cardinality(G) = 1
           /\ \A x \in X, w \in S, g \in G :
                 /\ x < w /\ w < g
                 /\ trace[x].display = "wayland:"
                 /\ trace[x].model =
                       (IF "Layout/Model" \in DOMAIN kxkbrc.data
                        THEN kxkbrc.data["Layout/Model"] ELSE <<>>)
                 /\ trace[x].options =
                       (IF "Layout/Options" \in DOMAIN kxkbrc.data
                        THEN kxkbrc.data["Layout/Options"] ELSE <<>>)
                 /\ "wayland:" \in DOMAIN xkbParameters
                 /\ xkbParameters["wayland:"].model = trace[x].model
                 /\ xkbParameters["wayland:"].options = trace[x].options
                 /\ trace[g] = [ev |-> "signal", path |-> "/Layouts",
                                interface |-> "org.kde.keyboard",
                                member |-> "reloadConfig"]

\* The handler ran to its end on a kxkbrc that had a model and options.
C11_Witness ==
    /\ IsCall(trace, "InputMethodGroupChanged")
    /\ HasEvent(trace, "signal")
    /\ \E x \in Indices(trace, "setXkbParameters") :
          trace[x].model = <<"p", "c">> /\ trace[x].options = <<"c", "a", "p", "s">>

\* C12: the constructor tries to open the default connection; when that
\* fails the module is constructed all the same, with zero connections, no
\* exit request and no notification.
C12_ConstructionSoftFails ==
    [][(~constructed /\ constructed') =>
          /\ trace'[1] = [ev |-> "call", op |-> "openDisplay", name |-> ""]
          /\ HasEvent(trace', "connect")
          /\ OpenFailed(trace') =>
                /\ ReturnsNormally(trace')
                /\ conns' = {}
                /\ alive' = {}
                /\ ~exitRequested'
                /\ ~HasEvent(trace', "created")
                /\ ~HasEvent(trace', "closed")
                /\ ~HasEvent(trace', "exit")]_vars

\* The module has just been constructed and its default display could not
\* be opened.
C12_Witness ==
    /\ constructed
    /\ nextId = 0
    /\ OpenFailed(trace)
    /\ trace[1].name = ""
    /\ createdCallbacks = <<>> /\ closedCallbacks = <<>>

HandlerFault(t) ==
    \E i \in DOMAIN t :
        t[i].ev \in {"readAsIniFailed", "safeSaveAsIniFailed", "sendFailed"}

C14_ClosedSubscriptionHasNoReplay ==
    /\ IsCall(trace, "addConnectionClosedCallback") =>
          /\ Len(trace) = 2
          /\ trace[2] = Return
          /\ trace[1].sub = Len(closedCallbacks)
    /\ \A i \in Indices(trace, "closed") :
          /\ trace[i].sub \in Range(closedCallbacks)
          /\ \E k \in 1..(i - 1) :
                /\ trace[k].ev = "call"
                /\ trace[k].op = "removeDisplay"
                /\ trace[k].name = trace[i].name
          /\ \E j \in Indices(trace, "erase") : trace[j].id = trace[i].display
          /\ trace[i].reg
    /\ IsCall(trace, "openDisplay") =>
          \A i \in Indices(trace, "created") :
              /\ trace[i].sub \in Range(createdCallbacks)
              /\ Cardinality(Indices(trace, "created")) = Len(createdCallbacks)

\* A closed-subscriber is added while a connection is open and another has
\* already been closed; no created-subscriber exists.
C14_Witness ==
    /\ IsCall(trace, "addConnectionClosedCallback")
    /\ conns # {}
    /\ published \ alive # {}
    /\ createdCallbacks = <<>>

Transport == {"prepare_read", "read_events", "dispatch", "flush"}

\* C15: in a pump call without Err and without Hup the connection is closed
\* exactly when dispatch returned a negative result and the error code read
\* then is not 0; in every other case the connection stays in the registry
\* and the pump ends with a flush of its display.
C15_ClosedIffDispatchError ==
    (IsCall(trace, "onIOEvent") /\ ~trace[1].hup) =>
        LET id == trace[1].id
            failed == /\ \E i \in Indices(trace, "dispatch") : trace[i].res < 0
                      /\ \E j \in Indices(trace, "get_error") : trace[j].code # 0
            here == \E e \in conns : e.id = id /\ e.name = trace[1].name
        IN /\ Cardinality(Indices(trace, "dispatch")) = 1
           /\ failed <=> HasEvent(trace, "finish")
           /\ failed <=> ~here
           /\ failed <=> (\E i \in Indices(trace, "erase") : trace[i].id = id)
           /\ failed <=> id \notin alive
           /\ ~failed => /\ trace[Len(trace) - 1] = [ev |-> "flush", id |-> id]
                         /\ ~HasEvent(trace, "closed")
                         /\ ~exitRequested

\* dispatch was negative, the error code was 0: the connection stays and is
\* flushed.
C15_Witness ==
    /\ IsCall(trace, "onIOEvent")
    /\ ~trace[1].hup
    /\ \E i \in Indices(trace, "get_error") : trace[i].code = 0
    /\ HasEvent(trace, "flush")
    /\ trace[1].id \in alive

C17_OneLiveConnectionPerName ==
    /\ \A i \in Indices(trace, "construct") :
          ~\E e \in conns : /\ e.name = trace[i].name
                            /\ e.id # trace[i].id
                            /\ e.id \in alive
    /\ \A e1, e2 \in conns : GroupName(e1.name) = GroupName(e2.name) => e1 = e2

\* C18: an openDisplay that inserts a connection delivers its created
\* notification exactly once to every created-subscriber; an openDisplay of a
\* name that is already open delivers no created notification and leaves the
\* existing entry in place.
C18_CreatedOncePerConnection ==
    IsCall(trace, "openDisplay") =>
        \A i \in Indices(trace, "emplace") :
            IF trace[i].inserted
            THEN \A k \in 1..Len(createdCallbacks) :
                    Cardinality({j \in Indices(trace, "created") :
                                    /\ trace[j].sub = createdCallbacks[k]
                                    /\ trace[j].display = trace[i].id}) = 1
            ELSE /\ ~HasEvent(trace, "created")
                 /\ \E e \in conns : /\ e.name = trace[i].name
                                     /\ e.id # trace[i].id
                                     /\ e.id \in alive

\* C19: for every connection each closed-subscriber is invoked at most once
\* and the entry is erased exactly once, also when a callback calls
\* openDisplay or removeDisplay from inside a notification pass.
C19_ClosedAndErasedOnce ==
    /\ \A i, j \in Indices(trace, "closed") :
          (trace[i].sub = trace[j].sub /\ trace[i].display = trace[j].display) => i = j
    /\ \A i, j \in Indices(trace, "erase") : trace[i].id = trace[j].id => i = j
    /\ \A i \in Indices(trace, "closed") :
          /\ trace[i].reg
          /\ \E j \in Indices(trace, "erase") : trace[j].id = trace[i].display
    /\ ~HasEvent(trace, "abort")

\* C20: a removeDisplay call requests exit at most once, and only after the
\* closed notification of the default connection went to every
\* closed-subscriber and the default entry was erased; exit is never
\* requested while the default connection is in the registry.
C20_ExitAfterDefaultClosed ==
    \A x \in Indices(trace, "exit") :
        /\ Cardinality(Indices(trace, "exit")) = 1
        /\ ~\E e \in conns : e.name = ""
        /\ \E j \in Indices(trace, "erase") : j < x /\ trace[j].name = ""
        /\ \A k \in 1..Len(closedCallbacks) :
              \E j \in Indices(trace, "closed") :
                  /\ j < x
                  /\ trace[j].sub = closedCallbacks[k]
                  /\ trace[j].name = ""

====
